---- MODULE Spec2Model ----
(***************************************************************************)
(* cf-switch (src/src/main.rs): a one-shot command line tool that keeps    *)
(* named Cloudflare credential profiles in ~/.cf-switch.json and activates *)
(* one of them by rewriting ~/.cloudflare.env.                             *)
(*                                                                         *)
(* One action per command of `main`.  Every action is one whole process    *)
(* invocation: load_config, the handler's branch, the file writes, the     *)
(* output on both streams and the exit status.  The state is the two       *)
(* files; `last` is the observable record of the most recent invocation;   *)
(* `expected_names` and `rot` are history variables.                       *)
(*                                                                         *)
(* SpecConc is the same program with two invocations whose file accesses   *)
(* interleave: each access of an invocation (load_config, write_env_file,  *)
(* save_config) is one step, `procs` holds each invocation's private copy  *)
(* of the configuration, and `writers` is the history of who wrote each    *)
(* file last.                                                              *)
(*                                                                         *)
(* fs::write(..).expect(..) aborts the process when the write fails: the   *)
(* failure is an input of the action (env_ok, cfg_ok), the file is left as *)
(* it was (the unwritable-home-directory case) and the process ends with   *)
(* the status of a Rust panic, 101.                                        *)
(***************************************************************************)
EXTENDS Integers, Sequences, FiniteSets, TLC

VARIABLES config_file, env_file, last, expected_names, rot, procs, writers

vars == <<config_file, env_file, last, expected_names, rot, procs, writers>>

(* ----------------------------- bounds ---------------------------------- *)
NumNames == 3
NumEmails == 1
NumTokens == 1
NumZones == 1

(* ------------------------------ values --------------------------------- *)
\* Option<T>
None == <<>>
Some(x) == <<x>>

\* String profile names: words over a two-letter alphabet, by length then
\* letter: a, b, aa, ab, ba, bb, aaa, ...
RECURSIVE NameOf(_)
NameOf(k) ==
  IF k <= 2 THEN <<k>>
  ELSE Append(NameOf((k - 1) \div 2), ((k - 1) % 2) + 1)

NameSet == {NameOf(k) : k \in 1..NumNames}

Emails == {<<"email", i>> : i \in 1..NumEmails}
Tokens == {<<"token", i>> : i \in 1..NumTokens}
Zones == {<<"zone", i>> : i \in 1..NumZones}
\* a zone typed on the command line need not be any profile's stored zone
ZoneArgs == {<<"zone", i>> : i \in 1..(NumZones + 1)}

Profile == [email : Emails, token : Tokens, zone : {None} \cup {Some(z) : z \in Zones}]

ProfileMaps == UNION {[S -> Profile] : S \in SUBSET NameSet}

Config == [profiles : ProfileMaps, current : {None} \cup {Some(n) : n \in NameSet}]

ConfigDefault == [profiles |-> [n \in {} |-> None], current |-> None]

\* config.current names a key of config.profiles
Registered(config) ==
  config.current # None /\ config.current[1] \in DOMAIN config.profiles

\* <String as Ord>::lt : lexicographic on the letters, a proper prefix first
LexLess(s, t) ==
  \E i \in 1..(Len(s) + 1) :
    /\ \A j \in 1..(i - 1) : j <= Len(t) /\ s[j] = t[j]
    /\ \/ i = Len(s) + 1 /\ Len(t) >= i
       \/ i <= Len(s) /\ i <= Len(t) /\ s[i] < t[i]

\* a sort that compares lengths before letters
SortNames_by_length(S) ==
  [i \in 1..Cardinality(S) |->
     CHOOSE n \in S :
       Cardinality({m \in S : Len(m) < Len(n) \/ (Len(m) = Len(n) /\ LexLess(m, n))}) = i - 1]

\* names.sort()
SortNames(S) ==
  [i \in 1..Cardinality(S) |->
     CHOOSE n \in S : Cardinality({m \in S : LexLess(m, n)}) = i - 1]

\* names.iter().position(|n| n == current) : 0-based Option<usize>
Position(names, x) ==
  IF \E i \in 1..Len(names) : names[i] = x
  THEN Some((CHOOSE i \in 1..Len(names) :
                names[i] = x /\ \A j \in 1..(i - 1) : names[j] # x) - 1)
  ELSE None

UnwrapOr(opt, d) == IF opt = None THEN d ELSE opt[1]

(* ------------------------------ files ---------------------------------- *)
FileAbsent == [kind |-> "absent", cfg |-> ConfigDefault]
FileCorrupt == [kind |-> "corrupt", cfg |-> ConfigDefault]
FileJson(c) == [kind |-> "json", cfg |-> c]

load_config(file) == IF file.kind = "json" THEN file.cfg ELSE ConfigDefault

\* the file save_config leaves when fs::write succeeds
save_config(config) == FileJson(config)

\* the content write_env_file formats
write_env_file(profile, name) ==
  [name |-> name, email |-> profile.email, key |-> profile.token, token |-> profile.token]

output_source_command == <<"source ~/.cloudflare.env">>

(* --------------------------- activation -------------------------------- *)
\* an activation that leaves the env file alone when the profile is already current
switch_to_profile_lazy(config, name, cf, ef, env_ok, cfg_ok) ==
  IF name \in DOMAIN config.profiles
  THEN IF ~cfg_ok
       THEN [ret |-> "panic", config_file |-> cf, env_file |-> ef,
             stdout |-> <<>>, stderr |-> <<"panic">>, ops |-> <<>>]
       ELSE [ret |-> "true",
             config_file |-> save_config([config EXCEPT !.current = Some(name)]),
             env_file |-> IF config.current = Some(name) THEN ef
                          ELSE Some(write_env_file(config.profiles[name], name)),
             stdout |-> output_source_command,
             stderr |-> <<"on">>,
             ops |-> <<"write_cfg", "stdout">>]
  ELSE [ret |-> "false", config_file |-> cf, env_file |-> ef,
        stdout |-> <<>>, stderr |-> <<"not_found">>, ops |-> <<>>]

\* an activation that emits the source line before it writes the files
switch_to_profile_source_first(config, name, cf, ef, env_ok, cfg_ok) ==
  IF name \in DOMAIN config.profiles
  THEN LET profile == config.profiles[name]
           written == Some(write_env_file(profile, name))
       IN IF ~env_ok
          THEN [ret |-> "panic", config_file |-> cf, env_file |-> ef,
                stdout |-> output_source_command, stderr |-> <<"panic">>,
                ops |-> <<"stdout">>]
          ELSE IF ~cfg_ok
          THEN [ret |-> "panic", config_file |-> cf, env_file |-> written,
                stdout |-> output_source_command, stderr |-> <<"panic">>,
                ops |-> <<"stdout", "write_env">>]
          ELSE [ret |-> "true",
                config_file |-> save_config([config EXCEPT !.current = Some(name)]),
                env_file |-> written,
                stdout |-> output_source_command,
                stderr |-> <<"on">>,
                ops |-> <<"stdout", "write_env", "write_cfg">>]
  ELSE [ret |-> "false", config_file |-> cf, env_file |-> ef,
        stdout |-> <<>>, stderr |-> <<"not_found">>, ops |-> <<>>]

\* an activation that saves the config before it writes the env file
switch_to_profile_cfg_first(config, name, cf, ef, env_ok, cfg_ok) ==
  IF name \in DOMAIN config.profiles
  THEN LET profile == config.profiles[name]
           saved == save_config([config EXCEPT !.current = Some(name)])
       IN IF ~cfg_ok
          THEN [ret |-> "panic", config_file |-> cf, env_file |-> ef,
                stdout |-> <<>>, stderr |-> <<"panic">>, ops |-> <<>>]
          ELSE IF ~env_ok
          THEN [ret |-> "panic", config_file |-> saved, env_file |-> ef,
                stdout |-> <<>>, stderr |-> <<"panic">>, ops |-> <<"write_cfg">>]
          ELSE [ret |-> "true",
                config_file |-> saved,
                env_file |-> Some(write_env_file(profile, name)),
                stdout |-> output_source_command,
                stderr |-> <<"on">>,
                ops |-> <<"write_cfg", "write_env", "stdout">>]
  ELSE [ret |-> "false", config_file |-> cf, env_file |-> ef,
        stdout |-> <<>>, stderr |-> <<"not_found">>, ops |-> <<>>]

\* switch_to_profile: ret is "true" / "false", or "panic" when an expect()
\* aborted the process.  ops lists the I/O it completed, in order.
switch_to_profile(config, name, cf, ef, env_ok, cfg_ok) ==
  IF name \in DOMAIN config.profiles
  THEN LET profile == config.profiles[name]
           written == Some(write_env_file(profile, name))
       IN IF ~env_ok
          THEN [ret |-> "panic", config_file |-> cf, env_file |-> ef,
                stdout |-> <<>>, stderr |-> <<"panic">>, ops |-> <<>>]
          ELSE IF ~cfg_ok
          THEN [ret |-> "panic", config_file |-> cf, env_file |-> written,
                stdout |-> <<>>, stderr |-> <<"panic">>, ops |-> <<"write_env">>]
          ELSE [ret |-> "true",
                config_file |-> save_config([config EXCEPT !.current = Some(name)]),
                env_file |-> written,
                stdout |-> output_source_command,
                stderr |-> <<"on">>,
                ops |-> <<"write_env", "write_cfg", "stdout">>]
  ELSE [ret |-> "false", config_file |-> cf, env_file |-> ef,
        stdout |-> <<>>, stderr |-> <<"not_found">>, ops |-> <<>>]

\* a rotation that stops at the last name instead of wrapping
next_name_nowrap(config) ==
  LET names == SortNames(DOMAIN config.profiles)
  IN IF config.current # None
     THEN LET current_idx == UnwrapOr(Position(names, config.current[1]), 0)
              next_idx == IF current_idx + 1 < Len(names) THEN current_idx + 1
                          ELSE Len(names) - 1
          IN names[next_idx + 1]
     ELSE names[1]

\* "Find next profile" of the no-subcommand branch
next_name(config) ==
  LET names == SortNames(DOMAIN config.profiles)
  IN IF config.current # None
     THEN LET current_idx == UnwrapOr(Position(names, config.current[1]), 0)
              next_idx == (current_idx + 1) % Len(names)
          IN names[next_idx + 1]
     ELSE names[1]

\* what one invocation leaves behind
Outcome(cf, ef, loaded, exit, out, err, ops, exec) ==
  [config_file |-> cf, env_file |-> ef, loaded |-> loaded, exit |-> exit,
   stdout |-> out, stderr |-> err, ops |-> ops, exec |-> exec]

ExitOf(ret, onFalse) ==
  IF ret = "panic" THEN 101 ELSE IF ret = "false" THEN onFalse ELSE 0

\* a default command that creates the config file when there are no profiles
RunDefault_creates_file(cf, ef, env_ok, cfg_ok) ==
  LET config == load_config(cf)
  IN IF DOMAIN config.profiles = {}
     THEN Outcome(save_config(config), ef, Some(config), 0, <<>>, <<"no_profiles">>,
                  <<"read_cfg", "write_cfg">>, None)
     ELSE LET r == switch_to_profile(config, next_name(config), cf, ef, env_ok, cfg_ok)
          IN Outcome(r.config_file, r.env_file, Some(config), ExitOf(r.ret, 0),
                     r.stdout, r.stderr, <<"read_cfg">> \o r.ops, None)

\* main, None branch
RunDefault(cf, ef, env_ok, cfg_ok) ==
  LET config == load_config(cf)
  IN IF DOMAIN config.profiles = {}
     THEN Outcome(cf, ef, Some(config), 0, <<>>, <<"no_profiles">>, <<"read_cfg">>, None)
     ELSE LET r == switch_to_profile(config, next_name(config), cf, ef, env_ok, cfg_ok)
          IN Outcome(r.config_file, r.env_file, Some(config), ExitOf(r.ret, 0),
                     r.stdout, r.stderr, <<"read_cfg">> \o r.ops, None)

\* a `use` that ignores what switch_to_profile returned
RunUse_exit0(cf, ef, name, env_ok, cfg_ok) ==
  LET config == load_config(cf)
      r == switch_to_profile(config, name, cf, ef, env_ok, cfg_ok)
  IN Outcome(r.config_file, r.env_file, Some(config), ExitOf(r.ret, 0),
             r.stdout, r.stderr, <<"read_cfg">> \o r.ops, None)

\* main, Commands::Use
RunUse(cf, ef, name, env_ok, cfg_ok) ==
  LET config == load_config(cf)
      r == switch_to_profile(config, name, cf, ef, env_ok, cfg_ok)
  IN Outcome(r.config_file, r.env_file, Some(config), ExitOf(r.ret, 1),
             r.stdout, r.stderr, <<"read_cfg">> \o r.ops, None)

\* an `add` that replaces the profile of an existing name
RunAdd_overwrite(cf, ef, name, profile, cfg_ok) ==
  LET config == load_config(cf)
      inserted == [n \in DOMAIN config.profiles \cup {name} |->
                     IF n = name THEN profile ELSE config.profiles[n]]
  IN IF ~cfg_ok
     THEN Outcome(cf, ef, Some(config), 101, <<>>, <<"panic">>, <<"read_cfg">>, None)
     ELSE Outcome(save_config([config EXCEPT !.profiles = inserted]), ef, Some(config),
                  IF name \in DOMAIN config.profiles THEN 1 ELSE 0, <<>>,
                  <<IF name \in DOMAIN config.profiles THEN "already_exists" ELSE "added">>,
                  <<"read_cfg", "write_cfg">>, None)

\* main, Commands::Add
RunAdd(cf, ef, name, profile, cfg_ok) ==
  LET config == load_config(cf)
  IN IF name \in DOMAIN config.profiles
     THEN Outcome(cf, ef, Some(config), 1, <<>>, <<"already_exists">>, <<"read_cfg">>, None)
     ELSE IF ~cfg_ok
     THEN Outcome(cf, ef, Some(config), 101, <<>>, <<"panic">>, <<"read_cfg">>, None)
     ELSE LET inserted == [n \in DOMAIN config.profiles \cup {name} |->
                             IF n = name THEN profile ELSE config.profiles[n]]
          IN Outcome(save_config([config EXCEPT !.profiles = inserted]), ef, Some(config),
                     0, <<>>, <<"added">>, <<"read_cfg", "write_cfg">>, None)

\* a `remove` that never clears `current`
RunRemove_keep_current(cf, ef, name, cfg_ok) ==
  LET config == load_config(cf)
  IN IF name \in DOMAIN config.profiles
     THEN IF ~cfg_ok
          THEN Outcome(cf, ef, Some(config), 101, <<>>, <<"panic">>, <<"read_cfg">>, None)
          ELSE LET removed == [n \in DOMAIN config.profiles \ {name} |-> config.profiles[n]]
               IN Outcome(save_config([profiles |-> removed, current |-> config.current]), ef,
                          Some(config), 0, <<>>, <<"removed">>, <<"read_cfg", "write_cfg">>, None)
     ELSE Outcome(cf, ef, Some(config), 1, <<>>, <<"not_found">>, <<"read_cfg">>, None)

\* a `remove` that drops every profile when it removes the active one
RunRemove_clear(cf, ef, name, cfg_ok) ==
  LET config == load_config(cf)
  IN IF name \in DOMAIN config.profiles
     THEN IF ~cfg_ok
          THEN Outcome(cf, ef, Some(config), 101, <<>>, <<"panic">>, <<"read_cfg">>, None)
          ELSE IF config.current = Some(name)
          THEN Outcome(save_config(ConfigDefault), ef,
                       Some(config), 0, <<>>, <<"removed">>, <<"read_cfg", "write_cfg">>, None)
          ELSE LET removed == [n \in DOMAIN config.profiles \ {name} |-> config.profiles[n]]
               IN Outcome(save_config([profiles |-> removed, current |-> config.current]), ef,
                          Some(config), 0, <<>>, <<"removed">>, <<"read_cfg", "write_cfg">>, None)
     ELSE Outcome(cf, ef, Some(config), 1, <<>>, <<"not_found">>, <<"read_cfg">>, None)

\* main, Commands::Remove
RunRemove(cf, ef, name, cfg_ok) ==
  LET config == load_config(cf)
  IN IF name \in DOMAIN config.profiles
     THEN IF ~cfg_ok
          THEN Outcome(cf, ef, Some(config), 101, <<>>, <<"panic">>, <<"read_cfg">>, None)
          ELSE LET removed == [n \in DOMAIN config.profiles \ {name} |-> config.profiles[n]]
                   current == IF config.current = Some(name) THEN None ELSE config.current
               IN Outcome(save_config([profiles |-> removed, current |-> current]), ef,
                          Some(config), 0, <<>>, <<"removed">>, <<"read_cfg", "write_cfg">>, None)
     ELSE Outcome(cf, ef, Some(config), 1, <<>>, <<"not_found">>, <<"read_cfg">>, None)

\* main, Commands::List
RunList(cf, ef) ==
  LET config == load_config(cf)
      names == SortNames(DOMAIN config.profiles)
      row(i) == <<IF config.current = Some(names[i]) THEN "ON" ELSE "  ",
                  names[i], config.profiles[names[i]].email>>
  IN IF DOMAIN config.profiles = {}
     THEN Outcome(cf, ef, Some(config), 0, <<>>, <<"no_profiles">>, <<"read_cfg">>, None)
     ELSE Outcome(cf, ef, Some(config), 0, <<>>,
                  <<"profiles">> \o [i \in 1..Len(names) |-> row(i)], <<"read_cfg">>, None)

\* a `current` that reports a dangling `current` as no active profile
RunCurrent_confused(cf, ef) ==
  LET config == load_config(cf)
      err == IF config.current = None THEN "no_active_profile"
             ELSE IF config.current[1] \in DOMAIN config.profiles THEN "on"
             ELSE "no_active_profile"
  IN Outcome(cf, ef, Some(config), 0, <<>>, <<err>>, <<"read_cfg">>, None)

\* main, Commands::Current
RunCurrent(cf, ef) ==
  LET config == load_config(cf)
      err == IF config.current = None THEN "no_active_profile"
             ELSE IF config.current[1] \in DOMAIN config.profiles THEN "on"
             ELSE "current_no_longer_exists"
  IN Outcome(cf, ef, Some(config), 0, <<>>, <<err>>, <<"read_cfg">>, None)

\* detect_shell and main, Commands::Hook
RunHook(cf, ef, shell) ==
  Outcome(cf, ef, None, 0, <<>>,
          <<IF shell = "fish" THEN "hook_fish" ELSE "hook_posix">>, <<>>, None)

(* ----------------------- external operation bridge --------------------- *)
\* Command::new("flarectl")...output(): Err(e), or Ok(result) with an exit
\* status and whether stderr / stdout contain "already exists"
ExecResults ==
  {[launched |-> FALSE, success |-> FALSE, stderr_exists |-> FALSE, stdout_exists |-> FALSE],
   [launched |-> TRUE, success |-> TRUE, stderr_exists |-> FALSE, stdout_exists |-> FALSE]}
  \cup [launched : {TRUE}, success : {FALSE}, stderr_exists : BOOLEAN, stdout_exists : BOOLEAN]

\* a bridge that passes the email as the API key
Invocation_key_email(args, profile, res) ==
  [args |-> args, CF_API_EMAIL |-> profile.email,
   CF_API_TOKEN |-> profile.token, CF_API_KEY |-> profile.email, output |-> res]

\* the process the bridge asks for: arguments and injected environment, with
\* what output() returned.  An outcome's exec is the request handed to
\* output(); ops has "exec" only when the binary was launched.
Invocation(args, profile, res) ==
  [args |-> args, CF_API_EMAIL |-> profile.email,
   CF_API_TOKEN |-> profile.token, CF_API_KEY |-> profile.token, output |-> res]

\* a resolution that prefers the stored zone
or_else_stored_first(arg, stored) == IF stored # None THEN stored ELSE arg

\* zone.or_else(|| profile.zone.clone())
or_else(arg, stored) == IF arg # None THEN arg ELSE stored

\* main, Commands::Purge
RunPurge(cf, ef, zone, res) ==
  LET config == load_config(cf)
      fail(err) == Outcome(cf, ef, Some(config), 1, <<>>, err, <<"read_cfg">>, None)
  IN IF config.current = None THEN fail(<<"no_active_profile">>)
     ELSE IF config.current[1] \notin DOMAIN config.profiles
     THEN fail(<<"current_no_longer_exists">>)
     ELSE LET profile == config.profiles[config.current[1]]
              target_zone == or_else(zone, profile.zone)
          IN IF target_zone = None THEN fail(<<"no_zone_specified">>)
             ELSE LET inv == Invocation(<<"zone", "purge", "--zone", target_zone[1],
                                          "--everything">>, profile, res)
                      done(exit, err) ==
                        Outcome(cf, ef, Some(config), exit, <<>>, <<"purging">> \o err,
                                <<"read_cfg", "exec">>, Some(inv))
                  IN IF ~res.launched
                     THEN Outcome(cf, ef, Some(config), 1, <<>>,
                                  <<"purging", "failed_to_run_flarectl">>,
                                  <<"read_cfg">>, Some(inv))
                     ELSE IF res.success THEN done(0, <<"purged">>)
                     ELSE done(1, <<"failed_to_purge">>)

\* a bridge that looks for "already exists" on stderr only
RunAddLamderaApp_stderr_only(cf, ef, domain, res) ==
  LET config == load_config(cf)
      fail(err) == Outcome(cf, ef, Some(config), 1, <<>>, err, <<"read_cfg">>, None)
  IN IF config.current = None THEN fail(<<"no_active_profile">>)
     ELSE IF config.current[1] \notin DOMAIN config.profiles
     THEN fail(<<"current_no_longer_exists">>)
     ELSE LET profile == config.profiles[config.current[1]]
              target_domain == or_else(domain, profile.zone)
          IN IF target_domain = None THEN fail(<<"no_domain_specified">>)
             ELSE LET inv == Invocation(<<"dns", "create", "--zone", target_domain[1],
                                          "--type", "CNAME", "--name", "@", "--content",
                                          "apps.lamdera.app", "--proxy">>, profile, res)
                      done(exit, err) ==
                        Outcome(cf, ef, Some(config), exit, <<>>, <<"adding">> \o err,
                                <<"read_cfg", "exec">>, Some(inv))
                  IN IF ~res.launched
                     THEN Outcome(cf, ef, Some(config), 1, <<>>,
                                  <<"adding", "failed_to_run_flarectl">>,
                                  <<"read_cfg">>, Some(inv))
                     ELSE IF res.success THEN done(0, <<"created", "next_step">>)
                     ELSE IF res.stderr_exists
                     THEN done(0, <<"already_exists_record">>)
                     ELSE done(1, <<"failed_to_create">>)

\* main, Commands::AddLamderaApp
RunAddLamderaApp(cf, ef, domain, res) ==
  LET config == load_config(cf)
      fail(err) == Outcome(cf, ef, Some(config), 1, <<>>, err, <<"read_cfg">>, None)
  IN IF config.current = None THEN fail(<<"no_active_profile">>)
     ELSE IF config.current[1] \notin DOMAIN config.profiles
     THEN fail(<<"current_no_longer_exists">>)
     ELSE LET profile == config.profiles[config.current[1]]
              target_domain == or_else(domain, profile.zone)
          IN IF target_domain = None THEN fail(<<"no_domain_specified">>)
             ELSE LET inv == Invocation(<<"dns", "create", "--zone", target_domain[1],
                                          "--type", "CNAME", "--name", "@", "--content",
                                          "apps.lamdera.app", "--proxy">>, profile, res)
                      done(exit, err) ==
                        Outcome(cf, ef, Some(config), exit, <<>>, <<"adding">> \o err,
                                <<"read_cfg", "exec">>, Some(inv))
                  IN IF ~res.launched
                     THEN Outcome(cf, ef, Some(config), 1, <<>>,
                                  <<"adding", "failed_to_run_flarectl">>,
                                  <<"read_cfg">>, Some(inv))
                     ELSE IF res.success THEN done(0, <<"created", "next_step">>)
                     ELSE IF res.stderr_exists \/ res.stdout_exists
                     THEN done(0, <<"already_exists_record">>)
                     ELSE done(1, <<"failed_to_create">>)

(* ------------------------ overlapping invocations ---------------------- *)
\* two shells
Procs == {"p1", "p2"}

\* the command lines of the commands that write
Invocations ==
  {[cmd |-> "default", name |-> None, profile |-> None]}
    \cup [cmd : {"use", "remove"}, name : {Some(n) : n \in NameSet}, profile : {None}]
    \cup [cmd : {"add"}, name : {Some(n) : n \in NameSet},
          profile : {Some(x) : x \in Profile}]

\* an invocation that has not started.  config is the private copy made by
\* load_config, saw the invocations that had saved the config before it
\* loaded, exit the exit status once it has ended.
Idle ==
  [pc |-> "idle", cmd |-> "none", name |-> None, profile |-> None,
   config |-> ConfigDefault, saw |-> {}, saved |-> FALSE, exit |-> None]

\* the invocation ended without saving the config / after saving it
Ended(p, exit) == [procs EXCEPT ![p].pc = "done", ![p].exit = Some(exit)]
Saved(p) == [procs EXCEPT ![p].pc = "done", ![p].exit = Some(0), ![p].saved = TRUE]

\* let mut config = load_config();
Load(p) ==
  /\ procs[p].pc = "idle"
  /\ \E inv \in Invocations :
       procs' = [procs EXCEPT ![p] =
                   [pc |-> "loaded", cmd |-> inv.cmd, name |-> inv.name,
                    profile |-> inv.profile, config |-> load_config(config_file),
                    saw |-> {q \in Procs : procs[q].saved},
                    saved |-> FALSE, exit |-> None]]
  /\ UNCHANGED <<config_file, env_file, writers, last, expected_names, rot>>

\* what `add` inserts into its private copy
Inserted(config, name, profile) ==
  [config EXCEPT !.profiles =
     [n \in DOMAIN config.profiles \cup {name} |->
        IF n = name THEN profile ELSE config.profiles[n]]]

\* what `remove` leaves of its private copy
Removed(config, name) ==
  [profiles |-> [n \in DOMAIN config.profiles \ {name} |-> config.profiles[n]],
   current |-> IF config.current = Some(name) THEN None ELSE config.current]

\* an `add` that inserts into the file as it is when it saves
AddSave_merge(p) ==
  LET me == procs[p]
  IN /\ me.pc = "loaded" /\ me.cmd = "add"
     /\ IF me.name[1] \in DOMAIN me.config.profiles
        THEN procs' = Ended(p, 1) /\ UNCHANGED <<config_file, writers>>
        ELSE /\ config_file' =
                  save_config(Inserted(load_config(config_file), me.name[1], me.profile[1]))
             /\ writers' = [writers EXCEPT !.cfg = Some(p)]
             /\ procs' = Saved(p)
     /\ UNCHANGED <<env_file, last, expected_names, rot>>

\* Commands::Add after the load: contains_key, insert, save_config
AddSave(p) ==
  LET me == procs[p]
  IN /\ me.pc = "loaded" /\ me.cmd = "add"
     /\ IF me.name[1] \in DOMAIN me.config.profiles
        THEN procs' = Ended(p, 1) /\ UNCHANGED <<config_file, writers>>
        ELSE /\ config_file' = save_config(Inserted(me.config, me.name[1], me.profile[1]))
             /\ writers' = [writers EXCEPT !.cfg = Some(p)]
             /\ procs' = Saved(p)
     /\ UNCHANGED <<env_file, last, expected_names, rot>>

\* Commands::Remove after the load: remove, clear current, save_config
RemoveSave(p) ==
  LET me == procs[p]
  IN /\ me.pc = "loaded" /\ me.cmd = "remove"
     /\ IF me.name[1] \in DOMAIN me.config.profiles
        THEN /\ config_file' = save_config(Removed(me.config, me.name[1]))
             /\ writers' = [writers EXCEPT !.cfg = Some(p)]
             /\ procs' = Saved(p)
        ELSE procs' = Ended(p, 1) /\ UNCHANGED <<config_file, writers>>
     /\ UNCHANGED <<env_file, last, expected_names, rot>>

\* an activation that exports the profile that was current when it loaded
WriteEnv_stale(p) ==
  LET me == procs[p]
      target == IF me.cmd = "use" THEN me.name[1] ELSE next_name(me.config)
      shown == IF Registered(me.config) THEN me.config.current[1] ELSE target
  IN /\ me.pc = "loaded" /\ me.cmd \in {"default", "use"}
     /\ IF me.cmd = "default" /\ DOMAIN me.config.profiles = {}
        THEN procs' = Ended(p, 0) /\ UNCHANGED <<env_file, writers>>
        ELSE IF target \notin DOMAIN me.config.profiles
        THEN procs' = Ended(p, 1) /\ UNCHANGED <<env_file, writers>>
        ELSE /\ env_file' = Some(write_env_file(me.config.profiles[shown], shown))
             /\ writers' = [writers EXCEPT !.env = Some(p)]
             /\ procs' = [procs EXCEPT ![p].pc = "env_written", ![p].name = Some(target)]
     /\ UNCHANGED <<config_file, last, expected_names, rot>>

\* the None branch and Commands::Use after the load, up to write_env_file
WriteEnv(p) ==
  LET me == procs[p]
      target == IF me.cmd = "use" THEN me.name[1] ELSE next_name(me.config)
  IN /\ me.pc = "loaded" /\ me.cmd \in {"default", "use"}
     /\ IF me.cmd = "default" /\ DOMAIN me.config.profiles = {}
        THEN procs' = Ended(p, 0) /\ UNCHANGED <<env_file, writers>>
        ELSE IF target \notin DOMAIN me.config.profiles
        THEN procs' = Ended(p, 1) /\ UNCHANGED <<env_file, writers>>
        ELSE /\ env_file' = Some(write_env_file(me.config.profiles[target], target))
             /\ writers' = [writers EXCEPT !.env = Some(p)]
             /\ procs' = [procs EXCEPT ![p].pc = "env_written", ![p].name = Some(target)]
     /\ UNCHANGED <<config_file, last, expected_names, rot>>

\* an activation that sets `current` in the file as it is when it saves
SaveCurrent_patch(p) ==
  LET me == procs[p]
  IN /\ me.pc = "env_written"
     /\ config_file' = save_config([load_config(config_file) EXCEPT !.current = me.name])
     /\ writers' = [writers EXCEPT !.cfg = Some(p)]
     /\ procs' = Saved(p)
     /\ UNCHANGED <<env_file, last, expected_names, rot>>

\* switch_to_profile after write_env_file: set current, save_config, source line
SaveCurrent(p) ==
  LET me == procs[p]
  IN /\ me.pc = "env_written"
     /\ config_file' = save_config([me.config EXCEPT !.current = me.name])
     /\ writers' = [writers EXCEPT !.cfg = Some(p)]
     /\ procs' = Saved(p)
     /\ UNCHANGED <<env_file, last, expected_names, rot>>

(* ------------------------------ actions -------------------------------- *)
Invoked(cmd, name, profile, zone, o) ==
  [cmd |-> cmd, name |-> name, profile |-> profile, zone |-> zone,
   loaded |-> o.loaded, exit |-> o.exit, stdout |-> o.stdout, stderr |-> o.stderr,
   ops |-> o.ops, exec |-> o.exec]

\* history of a run of consecutive successful default commands
RotReset(cf) == [start |-> load_config(cf).current, seq |-> <<>>]

RotStep(o) ==
  IF o.exit = 0 /\ o.stdout # <<>>
  THEN LET activated == load_config(o.config_file).current[1]
       IN IF Len(rot.seq) < Cardinality(DOMAIN o.loaded[1].profiles)
          THEN [rot EXCEPT !.seq = Append(@, activated)]
          ELSE [start |-> o.loaded[1].current, seq |-> <<activated>>]
  ELSE RotReset(o.config_file)

Finish(cmd, name, profile, zone, o) ==
  /\ config_file' = o.config_file
  /\ env_file' = o.env_file
  /\ last' = Invoked(cmd, name, profile, zone, o)
  /\ expected_names' =
       IF cmd = "add" /\ o.exit = 0 THEN expected_names \cup {name[1]}
       ELSE IF cmd = "remove" /\ o.exit = 0 THEN expected_names \ {name[1]}
       ELSE expected_names
  /\ rot' = IF cmd = "default" THEN RotStep(o) ELSE RotReset(o.config_file)
  /\ UNCHANGED <<procs, writers>>

DefaultCmd ==
  \E env_ok, cfg_ok \in BOOLEAN :
    \E o \in {RunDefault(config_file, env_file, env_ok, cfg_ok)} :
      Finish("default", None, None, None, o)

UseCmd ==
  \E name \in NameSet, env_ok, cfg_ok \in BOOLEAN :
    \E o \in {RunUse(config_file, env_file, name, env_ok, cfg_ok)} :
      Finish("use", Some(name), None, None, o)

AddCmd ==
  \E name \in NameSet, profile \in Profile, cfg_ok \in BOOLEAN :
    \E o \in {RunAdd(config_file, env_file, name, profile, cfg_ok)} :
      Finish("add", Some(name), Some(profile), profile.zone, o)

RemoveCmd ==
  \E name \in NameSet, cfg_ok \in BOOLEAN :
    \E o \in {RunRemove(config_file, env_file, name, cfg_ok)} :
      Finish("remove", Some(name), None, None, o)

ListCmd ==
  \E o \in {RunList(config_file, env_file)} : Finish("list", None, None, None, o)

CurrentCmd ==
  \E o \in {RunCurrent(config_file, env_file)} : Finish("current", None, None, None, o)

HookCmd ==
  \E shell \in {"fish", "zsh"} :
    \E o \in {RunHook(config_file, env_file, shell)} :
      Finish("hook", None, None, None, o)

PurgeCmd ==
  \E zone \in {None} \cup {Some(z) : z \in ZoneArgs}, res \in ExecResults :
    \E o \in {RunPurge(config_file, env_file, zone, res)} :
      Finish("purge", None, None, zone, o)

AddLamderaAppCmd ==
  \E domain \in {None} \cup {Some(z) : z \in ZoneArgs}, res \in ExecResults :
    \E o \in {RunAddLamderaApp(config_file, env_file, domain, res)} :
      Finish("add-lamdera-app", None, None, domain, o)

\* the files as any earlier use (or a hand edit of the JSON) may have left them
Init ==
  /\ config_file \in {FileAbsent, FileCorrupt} \cup {FileJson(c) : c \in Config}
  /\ env_file = None
  /\ last = [cmd |-> "none", name |-> None, profile |-> None, zone |-> None,
             loaded |-> None, exit |-> 0, stdout |-> <<>>, stderr |-> <<>>,
             ops |-> <<>>, exec |-> None]
  /\ expected_names = DOMAIN load_config(config_file).profiles
  /\ rot = RotReset(config_file)
  /\ procs = [p \in Procs |-> Idle]
  /\ writers = [env |-> None, cfg |-> None]

Next ==
  \/ DefaultCmd
  \/ UseCmd
  \/ AddCmd
  \/ RemoveCmd
  \/ ListCmd
  \/ CurrentCmd
  \/ HookCmd
  \/ PurgeCmd
  \/ AddLamderaAppCmd

Spec == Init /\ [][Next]_vars

\* files left by earlier invocations that did not overlap: `current` is unset
\* or registered, and the env file is the one of `current`
InitConc ==
  /\ config_file \in {FileAbsent, FileCorrupt} \cup
       {FileJson(c) : c \in {d \in Config : d.current = None \/ Registered(d)}}
  /\ env_file = IF load_config(config_file).current = None THEN None
                ELSE Some(write_env_file(
                       load_config(config_file).profiles[load_config(config_file).current[1]],
                       load_config(config_file).current[1]))
  /\ last = [cmd |-> "none", name |-> None, profile |-> None, zone |-> None,
             loaded |-> None, exit |-> 0, stdout |-> <<>>, stderr |-> <<>>,
             ops |-> <<>>, exec |-> None]
  /\ expected_names = DOMAIN load_config(config_file).profiles
  /\ rot = RotReset(config_file)
  /\ procs = [p \in Procs |-> Idle]
  /\ writers = [env |-> None, cfg |-> None]

NextConc ==
  \E p \in Procs :
    \/ Load(p)
    \/ AddSave(p)
    \/ RemoveSave(p)
    \/ WriteEnv(p)
    \/ SaveCurrent(p)

SpecConc == InitConc /\ [][NextConc]_vars

(* ------------------------- notions of the claims ----------------------- *)
\* the configuration the last invocation loaded, and the one now on disk
Loaded == last.loaded[1]
OnDisk == load_config(config_file)

\* 0-based position of a name in the lexicographic order of a set of names
Rank(S, x) == Cardinality({m \in S : LexLess(m, x)})

\* the last invocation was a default command that activated a profile
Rotated ==
  /\ last.cmd = "default"
  /\ last.exit = 0
  /\ DOMAIN Loaded.profiles # {}

(* C1: the default command, run with `current` naming a registered         *)
(* profile, activates the profile at position (i + 1) mod N of the         *)
(* lexicographically sorted names, i being the position of `current`: it   *)
(* wraps from the last name to the first and, with one profile,            *)
(* re-activates it.                                                        *)
C1_RotateToNext ==
  (Rotated /\ Registered(Loaded)) =>
    LET S == DOMAIN Loaded.profiles
        i == Rank(S, Loaded.current[1])
    IN /\ OnDisk.current # None
       /\ OnDisk.current[1] \in S
       /\ Rank(S, OnDisk.current[1]) = (i + 1) % Cardinality(S)
       /\ env_file # None
       /\ env_file[1].name = OnDisk.current[1]

\* a rotation over three or more profiles that wrapped from the last to the first
C1_Witness ==
  /\ Rotated /\ Registered(Loaded)
  /\ Cardinality(DOMAIN Loaded.profiles) >= 3
  /\ Rank(DOMAIN Loaded.profiles, Loaded.current[1]) = Cardinality(DOMAIN Loaded.profiles) - 1
  /\ OnDisk.current = Some(<<1>>)

(* C2: the default command, run with `current` unset or naming no          *)
(* registered profile, activates the lexicographically first profile       *)
(* name, for every number of profiles N >= 1.                              *)
C2_RotateFromNoneOrDangling ==
  (Rotated /\ ~Registered(Loaded)) =>
    /\ OnDisk.current # None
    /\ OnDisk.current[1] \in DOMAIN Loaded.profiles
    /\ Rank(DOMAIN Loaded.profiles, OnDisk.current[1]) = 0

(* C3: N consecutive default commands over a fixed set of N >= 1 profiles, *)
(* from any `current` (registered, unset or dangling), activate each       *)
(* profile exactly once, and end on the `current` the run started from     *)
(* when that was a registered profile.                                     *)
C3_RotationBijection ==
  LET S == DOMAIN OnDisk.profiles
  IN /\ \A i, j \in 1..Len(rot.seq) : i # j => rot.seq[i] # rot.seq[j]
     /\ \A i \in 1..Len(rot.seq) : rot.seq[i] \in S
     /\ (S # {} /\ Len(rot.seq) = Cardinality(S)) =>
          /\ {rot.seq[i] : i \in 1..Len(rot.seq)} = S
          /\ (rot.start # None /\ rot.start[1] \in S) => OnDisk.current = rot.start

\* a full run over three or more profiles that returned to its registered start
C3_Witness ==
  /\ Cardinality(DOMAIN OnDisk.profiles) >= 3
  /\ Len(rot.seq) = Cardinality(DOMAIN OnDisk.profiles)
  /\ rot.start # None
  /\ rot.start[1] \in DOMAIN OnDisk.profiles
  /\ OnDisk.current = rot.start

\* a full run over two or more profiles that started from a dangling `current`
C3_WitnessDangling ==
  /\ Cardinality(DOMAIN OnDisk.profiles) >= 2
  /\ Len(rot.seq) = Cardinality(DOMAIN OnDisk.profiles)
  /\ rot.start # None
  /\ rot.start[1] \notin DOMAIN OnDisk.profiles

InSeq(x, seq) == \E i \in 1..Len(seq) : seq[i] = x

\* the invocation recorded in l is an activation that completed: the env
\* file was written and the config saved
Completed(l) ==
  /\ l.cmd \in {"default", "use"}
  /\ l.exit = 0
  /\ InSeq("write_env", l.ops)
  /\ InSeq("write_cfg", l.ops)

\* the export file for profile `name` of `config`
EnvOf(config, name) ==
  Some([name |-> name, email |-> config.profiles[name].email,
        key |-> config.profiles[name].token, token |-> config.profiles[name].token])

(* C4: in every reachable state the env file holds the name and            *)
(* credentials of the most recent activation that completed (env file      *)
(* written and config saved with that `current`), also after an activation *)
(* that aborted on a write failure: a step sets the env file to the        *)
(* activated profile when it is a completed activation, and leaves it as   *)
(* it was otherwise.                                                       *)
C4_EnvIsLastCompletedActivation ==
  [][IF Completed(last')
     THEN /\ OnDisk'.current # None
          /\ env_file' = EnvOf(OnDisk', OnDisk'.current[1])
     ELSE env_file' = env_file]_vars

\* the last invocation was `use <name>` of a registered profile, or a default
\* command with at least one profile, and it exited 0
Activated ==
  \/ last.cmd = "use" /\ last.exit = 0
  \/ Rotated

(* C5: a successful activation leaves `profiles` exactly as loaded, sets   *)
(* `current` to the activated name and rewrites the env file with that     *)
(* profile's email and token (key = token), also when the profile was      *)
(* already the current one.                                                *)
C5_ActivationFrame ==
  Activated =>
    /\ config_file.kind = "json"
    /\ OnDisk.profiles = Loaded.profiles
    /\ OnDisk.current # None
    /\ OnDisk.current[1] \in DOMAIN Loaded.profiles
    /\ last.cmd = "use" => OnDisk.current = last.name
    /\ env_file = EnvOf(Loaded, OnDisk.current[1])
    /\ InSeq("write_env", last.ops)
    /\ InSeq("write_cfg", last.ops)

\* `use` of the profile that was already current
C5_Witness ==
  /\ last.cmd = "use" /\ last.exit = 0
  /\ Loaded.current = last.name
  /\ Cardinality(DOMAIN Loaded.profiles) >= 2
  /\ env_file = EnvOf(Loaded, last.name[1])

(* C6: `use <name>` of a name that is not a registered profile exits 1,    *)
(* reports NotFound, writes neither the config file nor the env file and   *)
(* emits nothing on stdout.                                                *)
C6_UseNotFound ==
  [][(last'.cmd = "use" /\ last'.name[1] \notin DOMAIN OnDisk.profiles) =>
       /\ last'.exit = 1
       /\ last'.stderr = <<"not_found">>
       /\ last'.stdout = <<>>
       /\ last'.ops = <<"read_cfg">>
       /\ config_file' = config_file
       /\ env_file' = env_file]_vars

\* a failed `use` that left a non-empty configuration and an env file behind
C6_Witness ==
  /\ last.cmd = "use" /\ last.exit = 1
  /\ last.name[1] \notin DOMAIN OnDisk.profiles
  /\ Registered(OnDisk)
  /\ env_file # None

\* the add / remove commands a user can issue, and the file each leaves
\* when its write succeeds
Edits ==
  [op : {"add"}, name : NameSet, profile : Profile]
    \cup [op : {"remove"}, name : NameSet, profile : {None}]

AfterEdit(e, cf) ==
  IF e.op = "add" THEN RunAdd(cf, env_file, e.name, e.profile, TRUE).config_file
  ELSE RunRemove(cf, env_file, e.name, TRUE).config_file

(* C7: after any sequence of commands the names in the persisted           *)
(* configuration are the initial names, plus the names `add` accepted,     *)
(* minus the names `remove` accepted, replayed in order; and two add /     *)
(* remove commands on distinct names leave the same set of names in either *)
(* order.                                                                  *)
C7_NamesSetAlgebra ==
  /\ DOMAIN OnDisk.profiles = expected_names
  /\ \A e1, e2 \in Edits :
       e1.name # e2.name =>
         DOMAIN load_config(AfterEdit(e2, AfterEdit(e1, config_file))).profiles
           = DOMAIN load_config(AfterEdit(e1, AfterEdit(e2, config_file))).profiles

\* a remove of the active profile was accepted and other profiles remain
C7_Witness ==
  /\ last.cmd = "remove" /\ last.exit = 0
  /\ Loaded.current = last.name
  /\ expected_names # {}
  /\ last.name[1] \notin expected_names

(* C8: `add <name>` of a name already in `profiles` exits 1, does not      *)
(* write the config file and leaves the existing profile as it was,        *)
(* whatever email, token and zone it supplies; `add` of a new name that    *)
(* completes inserts exactly that profile, saves at once and leaves        *)
(* `current` and every other profile unchanged.                            *)
C8_AddRejectsOrInserts ==
  [][last'.cmd = "add" =>
       LET before == OnDisk
           name == last'.name[1]
       IN IF name \in DOMAIN before.profiles
          THEN /\ last'.exit = 1
               /\ last'.stderr = <<"already_exists">>
               /\ last'.ops = <<"read_cfg">>
               /\ config_file' = config_file
               /\ OnDisk'.profiles[name] = before.profiles[name]
          ELSE /\ last'.exit \in {0, 101}
               /\ last'.exit = 101 => config_file' = config_file
               /\ last'.exit = 0 =>
                    /\ config_file'.kind = "json"
                    /\ last'.ops = <<"read_cfg", "write_cfg">>
                    /\ DOMAIN OnDisk'.profiles = DOMAIN before.profiles \cup {name}
                    /\ OnDisk'.profiles[name] = last'.profile[1]
                    /\ \A n \in DOMAIN before.profiles :
                         OnDisk'.profiles[n] = before.profiles[n]
                    /\ OnDisk'.current = before.current]_vars

\* a second add of a name, with other fields than the stored profile has
C8_Witness ==
  /\ last.cmd = "add" /\ last.exit = 1
  /\ last.name[1] \in DOMAIN OnDisk.profiles
  /\ last.profile[1] # OnDisk.profiles[last.name[1]]
  /\ Cardinality(DOMAIN OnDisk.profiles) >= 2

(* C9: `remove <name>` of a registered profile that completes deletes      *)
(* exactly that entry and clears `current` if and only if `current` was    *)
(* `name`; `remove` of an unknown name exits 1 and writes nothing.         *)
C9_RemoveFrame ==
  [][last'.cmd = "remove" =>
       LET before == OnDisk
           name == last'.name[1]
       IN IF name \in DOMAIN before.profiles
          THEN /\ last'.exit \in {0, 101}
               /\ last'.exit = 101 => config_file' = config_file
               /\ last'.exit = 0 =>
                    /\ DOMAIN OnDisk'.profiles = DOMAIN before.profiles \ {name}
                    /\ \A n \in DOMAIN OnDisk'.profiles :
                         OnDisk'.profiles[n] = before.profiles[n]
                    /\ OnDisk'.current =
                         (IF before.current = Some(name) THEN None ELSE before.current)
          ELSE /\ last'.exit = 1
               /\ last'.stderr = <<"not_found">>
               /\ last'.ops = <<"read_cfg">>
               /\ config_file' = config_file
               /\ env_file' = env_file]_vars

\* the active profile was removed, others remain, and `current` is unset
C9_Witness ==
  /\ last.cmd = "remove" /\ last.exit = 0
  /\ Loaded.current = last.name
  /\ OnDisk.current = None
  /\ DOMAIN OnDisk.profiles # {}
  /\ DOMAIN OnDisk.profiles = DOMAIN Loaded.profiles \ {last.name[1]}

\* the zone the bridge passed after "--zone"
ZoneOf(inv) == inv.args[4]

(* C10: `purge` and `add-lamdera-app` with an active registered profile    *)
(* target the explicit argument whenever one is given, otherwise the       *)
(* active profile's stored zone; with neither they exit 1 with their       *)
(* no-zone error and do not invoke the external binary.                    *)
C10_ZoneResolution ==
  (last.cmd \in {"purge", "add-lamdera-app"} /\ Registered(Loaded)) =>
    LET stored == Loaded.profiles[Loaded.current[1]].zone
    IN /\ last.zone # None =>
            last.exec # None /\ ZoneOf(last.exec[1]) = last.zone[1]
       /\ (last.zone = None /\ stored # None) =>
            last.exec # None /\ ZoneOf(last.exec[1]) = stored[1]
       /\ (last.zone = None /\ stored = None) =>
            /\ last.exec = None
            /\ ~InSeq("exec", last.ops)
            /\ last.exit = 1
            /\ last.stderr = <<IF last.cmd = "purge" THEN "no_zone_specified"
                               ELSE "no_domain_specified">>

\* an explicit zone won over a different stored zone, and the binary ran
C10_Witness ==
  /\ last.cmd \in {"purge", "add-lamdera-app"} /\ Registered(Loaded)
  /\ last.zone # None
  /\ Loaded.profiles[Loaded.current[1]].zone # None
  /\ Loaded.profiles[Loaded.current[1]].zone # last.zone
  /\ InSeq("exec", last.ops)
  /\ ZoneOf(last.exec[1]) = last.zone[1]

\* what output() returned to the last purge / add-lamdera-app
Ran == last.exec[1].output

(* C11: `purge` exits 0 exactly when the external binary was launched and  *)
(* exited successfully, and exits 1 when `current` is unset, no zone is    *)
(* resolvable, the binary fails or cannot be launched.  `add-lamdera-app`  *)
(* has the same exit codes, except that a failing exit whose stdout or     *)
(* stderr contains "already exists" is reported as already existing and    *)
(* exits 0.                                                                *)
C11_BridgeExitCodes ==
  LET launched == last.exec # None /\ Ran.launched
      benign == launched /\ ~Ran.success /\ (Ran.stderr_exists \/ Ran.stdout_exists)
  IN /\ last.cmd \in {"purge", "add-lamdera-app"} =>
          /\ last.exit \in {0, 1}
          /\ Loaded.current = None => last.exit = 1 /\ last.exec = None
          /\ (Registered(Loaded) /\ last.zone = None
                /\ Loaded.profiles[Loaded.current[1]].zone = None) =>
               last.exit = 1 /\ last.exec = None
          /\ (last.exec # None /\ ~Ran.launched) => last.exit = 1
     /\ last.cmd = "purge" =>
          /\ last.exit = 0 <=> (launched /\ Ran.success)
          /\ launched <=> InSeq("exec", last.ops)
     /\ last.cmd = "add-lamdera-app" =>
          /\ last.exit = 0 <=> (launched /\ (Ran.success \/ benign))
          /\ launched <=> InSeq("exec", last.ops)
          /\ benign <=> last.stderr = <<"adding", "already_exists_record">>

\* add-lamdera-app forgave a failing exit that said "already exists" on stdout only
C11_Witness ==
  /\ last.cmd = "add-lamdera-app"
  /\ last.exec # None
  /\ Ran.launched /\ ~Ran.success /\ Ran.stdout_exists /\ ~Ran.stderr_exists
  /\ last.exit = 0

\* purge did not forgive the same failure
C11_WitnessPurge ==
  /\ last.cmd = "purge"
  /\ last.exec # None
  /\ Ran.launched /\ ~Ran.success /\ Ran.stderr_exists
  /\ last.exit = 1

When(cond, t) == IF cond THEN {t} ELSE {}

\* the conditions of the error taxonomy that arise in the invocation l, each
\* as the line that reports it
Arising(l) ==
  LET config == l.loaded[1]
      bridge == l.cmd \in {"purge", "add-lamdera-app"}
      reads_current == bridge \/ l.cmd = "current"
                         \/ (l.cmd = "default" /\ DOMAIN config.profiles # {})
      out == l.exec[1].output
  IN IF l.loaded = None THEN {}
     ELSE When(l.cmd \in {"use", "remove"} /\ l.name[1] \notin DOMAIN config.profiles,
               "not_found")
       \cup When(l.cmd = "add" /\ l.name[1] \in DOMAIN config.profiles, "already_exists")
       \cup When(reads_current /\ config.current = None, "no_active_profile")
       \cup When(reads_current /\ config.current # None /\ ~Registered(config),
                 "current_no_longer_exists")
       \cup When(/\ bridge /\ Registered(config) /\ l.zone = None
                 /\ config.profiles[config.current[1]].zone = None,
                 IF l.cmd = "purge" THEN "no_zone_specified" ELSE "no_domain_specified")
       \cup When(bridge /\ l.exec # None /\ ~out.launched, "failed_to_run_flarectl")
       \cup When(/\ bridge /\ l.exec # None /\ out.launched /\ ~out.success
                 /\ l.cmd = "add-lamdera-app" => ~(out.stderr_exists \/ out.stdout_exists),
                 IF l.cmd = "purge" THEN "failed_to_purge" ELSE "failed_to_create")

(* C12 as stated: every condition of the error taxonomy, in every command  *)
(* where it arises (`current` and the default command with an unset or     *)
(* dangling `current` included), is reported on the status stream and      *)
(* exits non-zero without crashing.                                        *)
C12_AllErrorsExitNonZero ==
  \A t \in Arising(last) : InSeq(t, last.stderr) /\ last.exit = 1

(* C12 amended: every condition that arises in add, remove, use, purge or  *)
(* add-lamdera-app is reported on the status stream and exits 1; `current` *)
(* reports an unset or dangling `current` on the status stream and exits   *)
(* 0; the default command reports neither: it activates a profile and      *)
(* exits 0 unless a file write aborts it.                                  *)
C12_ErrorsByCommand ==
  \A t \in Arising(last) :
    /\ last.cmd \in {"add", "remove", "use", "purge", "add-lamdera-app"} =>
         InSeq(t, last.stderr) /\ last.exit = 1
    /\ last.cmd = "current" => last.stderr = <<t>> /\ last.exit = 0
    /\ last.cmd = "default" =>
         /\ ~InSeq(t, last.stderr)
         /\ last.exit \in {0, 101}
         /\ last.exit = 0 => last.stderr = <<"on">> /\ last.stdout # <<>>

\* `current` reported a dangling `current` and exited 0
C12_Witness ==
  /\ last.cmd = "current"
  /\ Arising(last) = {"current_no_longer_exists"}
  /\ last.stderr = <<"current_no_longer_exists">>
  /\ last.exit = 0

Before(x, y, seq) ==
  \E i \in 1..Len(seq) : seq[i] = x /\ \A j \in 1..i : seq[j] # y

(* C14: stdout receives output only from a successful activation, and then *)
(* exactly the one line `source <env-file-path>`; every other command and  *)
(* every failed command writes nothing to stdout.  The line is emitted     *)
(* only after the env file was written and the config saved with `current` *)
(* set to the activated name.                                              *)
C14_StdoutOnlySourceLine ==
  /\ last.stdout \in {<<>>, <<"source ~/.cloudflare.env">>}
  /\ last.stdout # <<>> <=> Activated
  /\ last.stdout # <<>> =>
       /\ Before("write_env", "stdout", last.ops)
       /\ Before("write_cfg", "stdout", last.ops)
       /\ last.ops[Len(last.ops)] = "stdout"
       /\ config_file.kind = "json"
       /\ OnDisk.current # None
       /\ env_file # None
       /\ env_file[1].name = OnDisk.current[1]

\* a default command emitted the source line
C14_Witness ==
  /\ Rotated
  /\ last.stdout = <<"source ~/.cloudflare.env">>
  /\ last.ops = <<"read_cfg", "write_env", "write_cfg", "stdout">>

Count(x, seq) == Cardinality({i \in 1..Len(seq) : seq[i] = x})

(* C16: one invocation reads the config at most once, writes it at most    *)
(* once, writes the env file at most once and runs the external binary at  *)
(* most once; the read precedes every write, within an activation the env  *)
(* file is written before the config, and no invocation both writes a file *)
(* and runs the binary.                                                    *)
C16_OneShotIO ==
  /\ \A x \in {"read_cfg", "write_cfg", "write_env", "exec"} : Count(x, last.ops) <= 1
  /\ \A i \in 1..Len(last.ops) :
       last.ops[i] \in {"write_cfg", "write_env", "exec"} =>
         \E j \in 1..(i - 1) : last.ops[j] = "read_cfg"
  /\ (last.cmd \in {"default", "use"} /\ InSeq("write_cfg", last.ops)) =>
       Before("write_env", "write_cfg", last.ops)
  /\ InSeq("exec", last.ops) =>
       ~InSeq("write_cfg", last.ops) /\ ~InSeq("write_env", last.ops)
  /\ InSeq("write_env", last.ops) => last.cmd \in {"default", "use"}

\* an activation wrote the env file and was aborted before it saved the config
C16_Witness ==
  /\ last.cmd \in {"default", "use"}
  /\ last.ops = <<"read_cfg", "write_env">>
  /\ last.exit = 101

\* the config file the invocation r leaves when it runs alone on the
\* configuration it loaded, with every write succeeding
AloneOn(r) ==
  LET cf == FileJson(r.config)
  IN IF r.cmd = "add" THEN RunAdd(cf, None, r.name[1], r.profile[1], TRUE).config_file
     ELSE IF r.cmd = "remove" THEN RunRemove(cf, None, r.name[1], TRUE).config_file
     ELSE IF r.cmd = "use" THEN RunUse(cf, None, r.name[1], TRUE, TRUE).config_file
     ELSE RunDefault(cf, None, TRUE, TRUE).config_file

\* both invocations have ended
Quiet == \A p \in Procs : procs[p].pc \in {"idle", "done"}

\* p and q were in progress at the same time: neither loaded after the
\* other had saved
Overlapped(p, q) ==
  /\ p # q
  /\ procs[p].pc = "done" /\ procs[q].pc = "done"
  /\ p \notin procs[q].saw
  /\ q \notin procs[p].saw

(* C17: when two invocations overlap, the config file is the complete      *)
(* document of the invocation that saved last (its own loaded copy with    *)
(* its own mutation), never a merge; a profile added by the other          *)
(* invocation is in the file only if the last writer loaded after it was   *)
(* saved, so two overlapping adds of distinct names leave one profile.     *)
C17_LastWriterWins ==
  /\ writers.cfg # None => config_file = AloneOn(procs[writers.cfg[1]])
  /\ \A p, q \in Procs :
       (/\ procs[p].cmd = "add" /\ procs[q].cmd = "add"
        /\ procs[p].saved /\ procs[q].saved
        /\ procs[p].name # procs[q].name
        /\ writers.cfg = Some(q)) =>
         /\ procs[q].name[1] \in DOMAIN OnDisk.profiles
         /\ procs[p].name[1] \in DOMAIN OnDisk.profiles <=> p \in procs[q].saw

\* two overlapping adds of distinct names were both accepted and one is lost
C17_Witness ==
  \E p, q \in Procs :
    /\ Overlapped(p, q)
    /\ procs[p].cmd = "add" /\ procs[q].cmd = "add"
    /\ procs[p].exit = Some(0) /\ procs[q].exit = Some(0)
    /\ procs[p].name # procs[q].name
    /\ procs[q].name[1] \in DOMAIN OnDisk.profiles
    /\ procs[p].name[1] \notin DOMAIN OnDisk.profiles

(* C18: from a configuration whose `current` is unset or registered, every *)
(* config file written by add, remove, use and default commands, run one   *)
(* after the other or interleaved, has `current` unset or a key of         *)
(* `profiles`.                                                             *)
C18_NoDanglingWritten ==
  config_file.kind = "json" => (OnDisk.current = None \/ Registered(OnDisk))

\* `use a` and `remove a` overlapped, both exited 0 and the remove saved last
C18_Witness ==
  \E p, q \in Procs :
    /\ Overlapped(p, q)
    /\ procs[p].cmd = "use" /\ procs[q].cmd = "remove"
    /\ procs[p].name = procs[q].name
    /\ procs[p].exit = Some(0) /\ procs[q].exit = Some(0)
    /\ writers.cfg = Some(q)
    /\ env_file[1].name = procs[p].name[1]

\* the env file is the export of the profile `current` names
EnvMatchesCurrent ==
  /\ Registered(OnDisk)
  /\ env_file = EnvOf(OnDisk, OnDisk.current[1])

====
